---- MODULE Spec2Model ----
(***************************************************************************)
(* The NATS transport of go-plugins (transport/nats/nats.go): the listener *)
(* that demultiplexes bus frames into per-reply-subject sockets, the       *)
(* sockets' hand-off slot and backlog, their one-shot close and registry   *)
(* cleanup, and the client's request/reply pairing.                        *)
(*                                                                         *)
(* Every goroutine is a process with a program counter.  A critical        *)
(* section is two steps: taking the lock, then the body with the unlock.   *)
(* Who holds a lock follows from the program counters.                     *)
(***************************************************************************)
EXTENDS Integers, Sequences, FiniteSets, TLC

\* ------------------------------------------------------------------ bounds
\* Frames each client publishes to the listener.
MaxSend == 2
\* Replies a handler publishes on one socket.
MaxReply == 1
\* Close calls a handler makes on its socket before it returns or panics.
MaxClose == 1
\* Listener.Close calls.
MaxLClose == 2
\* Consecutive poll timeouts of the accept loop that are told apart.
MaxTimeouts == 2

\* cap of the exit channel: make(chan bool, 1)
ExitCap == 1
\* cap of a socket's hand-off channel: make(chan *nats.Msg, 1)
SlotCap == 1

\* The private reply subjects (nats.NewInbox) of the two dialled clients.
Subjects == {"A", "B"}

\* ------------------------------------------------------------------ codec
\* encoding/json on transport.Message{Header map[string]string; Body []byte}:
\* a nil map and a nil slice encode as null, a map as an object, a byte slice
\* as a base64 string.  A Go map is [nil, kv], a Go slice is [nil, b].
NilMap == [nil |-> TRUE, kv |-> {}]
NilBytes == [nil |-> TRUE, b |-> << >>]
Map(kv) == [nil |-> FALSE, kv |-> kv]
Bytes(b) == [nil |-> FALSE, b |-> b]
Pad == 64

RECURSIVE B64Enc(_)
B64Enc(b) ==
  IF Len(b) = 0 THEN << >>
  ELSE IF Len(b) = 1 THEN
    << b[1] \div 4, (b[1] % 4) * 16, Pad, Pad >>
  ELSE IF Len(b) = 2 THEN
    << b[1] \div 4, (b[1] % 4) * 16 + b[2] \div 16, (b[2] % 16) * 4, Pad >>
  ELSE
    << b[1] \div 4, (b[1] % 4) * 16 + b[2] \div 16,
       (b[2] % 16) * 4 + b[3] \div 64, b[3] % 64 >>
    \o B64Enc(SubSeq(b, 4, Len(b)))

RECURSIVE B64Dec(_)
B64Dec(s) ==
  IF Len(s) = 0 THEN << >>
  ELSE IF s[3] = Pad THEN
    << s[1] * 4 + s[2] \div 16 >>
  ELSE IF s[4] = Pad THEN
    << s[1] * 4 + s[2] \div 16, (s[2] % 16) * 16 + s[3] \div 4 >>
  ELSE
    << s[1] * 4 + s[2] \div 16, (s[2] % 16) * 16 + s[3] \div 4,
       (s[3] % 4) * 64 + s[4] >>
    \o B64Dec(SubSeq(s, 5, Len(s)))

JNull == [kind |-> "null"]

\* json.Marshal(m) for a non-nil *transport.Message
Marshal(m) ==
  [ Header |-> IF m.Header.nil THEN JNull
               ELSE [kind |-> "object", members |-> m.Header.kv],
    Body   |-> IF m.Body.nil THEN JNull
               ELSE [kind |-> "string", chars |-> B64Enc(m.Body.b)] ]

\* json.Unmarshal(data, &mr) into a fresh message
Unmarshal(j) ==
  [ Header |-> IF j.Header.kind = "null" THEN NilMap
               ELSE Map(j.Header.members),
    Body   |-> IF j.Body.kind = "null" THEN NilBytes
               ELSE Bytes(B64Dec(j.Body.chars)) ]

\* The n-th message client c sends.
ReqMsg(c, n) == [Header |-> Map({<<"from", c>>}), Body |-> Bytes(<<n, 255>>)]

\* The messages a handler replies with.
ReplyMsgs ==
  { [Header |-> NilMap, Body |-> NilBytes],
    [Header |-> Map({}), Body |-> Bytes(<< >>)],
    [Header |-> Map({<<"k", "v">>}), Body |-> Bytes(<<112, 111, 110, 103>>)] }

\* ------------------------------------------------------------------ frames
\* A *nats.Msg delivered to the listener: Reply is the session key, seq tells
\* the pointers apart (the n-th frame published by that client).
Frame(c, n) == [reply |-> c, seq |-> n, data |-> Marshal(ReqMsg(c, n))]
AllFrames == {Frame(c, n) : c \in Subjects, n \in 1..MaxSend}
NoFrame == [reply |-> "", seq |-> 0, data |-> JNull]

\* A socket is named by the frame that created it (its field m).
Sockets == AllFrames
NoSock == NoFrame

VARIABLES
  \* the bus
  subq,        \* frames pending on the listener's subscription
  sub,         \* the listener's subscription: "none", "active", "unsub"
  connClosed,  \* the listener's connection (shared with its sockets) is closed
  inbox,       \* per client: encoded replies pending on its subscription
  \* ntportListener
  exitCh,      \* items in the exit channel
  so,          \* the registry: subject -> socket or NoSock
  \* Accept
  apc, am, asock, aret, ataken, ntimeouts, aclosedAtRecv, dropped,
  epc,         \* the goroutine of Accept that waits on exit
  \* Listener.Close callers
  lpc, lcalls,
  \* ntportSocket, by socket
  socks,       \* sockets constructed so far
  r, bl, rclosed, closed, onceDone, nclose, cpanic, closeRets,
  \* handler goroutine, by socket
  hpc, held, recvd, rret, panicking, nsent, hcalls, replies,
  \* cleanup watcher and a second goroutine that closes the socket
  wpc, xpc,
  \* ntportClient, by subject
  csent,       \* frames of the client the bus handed to the listener
  crecv        \* messages the client's Recv returned

busVars == <<subq, sub, connClosed, inbox>>
lisVars == <<exitCh, so>>
accVars == <<apc, am, asock, aret, ataken, ntimeouts, aclosedAtRecv, dropped>>
lcVars == <<lpc, lcalls>>
chanVars == <<r, bl, rclosed>>
onceVars == <<closed, onceDone, nclose, cpanic, closeRets>>
hdlVars == <<hpc, held, recvd, rret, panicking, nsent, hcalls, replies>>
cliVars == <<csent, crecv>>
vars == <<busVars, lisVars, accVars, epc, lcVars, socks, chanVars, onceVars,
          hdlVars, wpc, xpc, cliVars>>

Init ==
  /\ subq = << >> /\ sub = "none" /\ connClosed = FALSE
  /\ inbox = [c \in Subjects |-> << >>]
  /\ exitCh = 0
  /\ so = [c \in Subjects |-> NoSock]
  /\ apc = "start" /\ am = NoFrame /\ asock = NoSock /\ aret = "running"
  /\ ataken = [c \in Subjects |-> 0]
  /\ ntimeouts = 0 /\ aclosedAtRecv = FALSE /\ dropped = {}
  /\ epc = "none"
  /\ lpc = "idle" /\ lcalls = 0
  /\ socks = {}
  /\ r = [s \in Sockets |-> << >>]
  /\ bl = [s \in Sockets |-> << >>]
  /\ rclosed = [s \in Sockets |-> FALSE]
  /\ closed = [s \in Sockets |-> FALSE]
  /\ onceDone = [s \in Sockets |-> FALSE]
  /\ nclose = [s \in Sockets |-> 0]
  /\ cpanic = [s \in Sockets |-> FALSE]
  /\ closeRets = [s \in Sockets |-> {}]
  /\ hpc = [s \in Sockets |-> "none"]
  /\ held = [s \in Sockets |-> NoFrame]
  /\ recvd = [s \in Sockets |-> << >>]
  /\ rret = [s \in Sockets |-> "none"]
  /\ panicking = [s \in Sockets |-> FALSE]
  /\ nsent = [s \in Sockets |-> 0]
  /\ hcalls = [s \in Sockets |-> 0]
  /\ replies = [c \in Subjects |-> << >>]
  /\ wpc = [s \in Sockets |-> "none"]
  /\ xpc = [s \in Sockets |-> "none"]
  /\ csent = [c \in Subjects |-> 0]
  /\ crecv = [c \in Subjects |-> << >>]

\* ------------------------------------------------------------------ locks
\* A lock's holder is a goroutine: the accept loop, or the cleanup watcher or
\* the Recv of a socket.
AcceptG == <<"accept", NoSock>>

\* Mutant of RegReaders: the accept loop keeps its read lock from the lookup
\* to the end of the iteration.
RegReadersHeld ==
  IF apc \in {"lookupCS", "create", "registerCS", "spawn", "check", "enq",
              "enqCS"}
  THEN {AcceptG} ELSE {}

\* ntportListener's embedded sync.RWMutex: Accept read-locks it for the lookup
\* and write-locks it to register, a cleanup watcher write-locks it to delete.
RegReaders == IF apc = "lookupCS" THEN {AcceptG} ELSE {}
RegWriters ==
  (IF apc = "registerCS" THEN {AcceptG} ELSE {})
  \cup {<<"watcher", s>> : s \in {u \in socks : wpc[u] = "deleteCS"}}
CanRLock == RegWriters = {}
CanLock == RegWriters = {} /\ RegReaders = {}

\* ntportSocket's embedded sync.Mutex: Accept holds it to enqueue, Recv to
\* promote the backlog head.
SockLockHolders(s) ==
  (IF apc = "enqCS" /\ asock = s THEN {AcceptG} ELSE {})
  \cup (IF hpc[s] = "recvCS" THEN {<<"recv", s>>} ELSE {})
CanSockLock(s) == SockLockHolders(s) = {}

\* ------------------------------------------------------------------ helpers
\* Mutant of Promote: the send does not wait for an empty slot.
PromoteOverwrite(slot, backlog) ==
  IF backlog # << >>
  THEN <<<<Head(backlog)>>, Tail(backlog)>>
  ELSE <<slot, backlog>>

\* select { case n.r <- bl[0]: bl = bl[1:]; default: }
Promote(slot, backlog) ==
  IF backlog # << >> /\ Len(slot) < SlotCap
  THEN <<Append(slot, Head(backlog)), Tail(backlog)>>
  ELSE <<slot, backlog>>

\* Mutant of Lookup: every lookup misses.
LookupMiss(reg, key) == NoSock

\* Mutant of Lookup: the key is ignored, any registered socket is taken.
LookupAny(reg, key) ==
  IF \E k \in DOMAIN reg : reg[k] # NoSock
  THEN reg[CHOOSE k \in DOMAIN reg : reg[k] # NoSock]
  ELSE NoSock

\* sock, ok := n.so[m.Reply]
Lookup(reg, key) == reg[key]

\* Mutant of IsClosed: the accept loop does not look at the close signal.
IsClosedNever(s) == FALSE

\* select { case <-sock.close: continue; default: }
IsClosed(s) == closed[s]

\* Mutant of Deleted: the entry is left in the registry.
DeletedNot(reg, key) == reg

\* delete(n.so, sock.m.Reply)
Deleted(reg, key) == [reg EXCEPT ![key] = NoSock]

\* Mutant of ReplySubject: every socket replies to the same subject.
ReplySubjectFixed(s) == "A"

\* n.conn.Publish(n.m.Reply, b): the subject a socket replies to
ReplySubject(s) == s.reply

\* Mutant of OnceRuns: done is not looked at again under the mutex.
OnceRunsAlways(done) == TRUE

\* sync.Once.doSlow: under once.m, f runs if done is still 0
OnceRuns(done) == ~done

\* Mutant of Recovered: the deferred function closes nothing.
RecoveredNever(p) == FALSE

\* Mutant of Recovered: the deferred function closes the socket whether or not
\* the handler panicked.
RecoveredAlways(p) == TRUE

\* if r := recover(); r != nil
Recovered(p) == p

\* conn.Publish(subject, data): the bus hands data to the subscription of
\* that subject (each client subscribes to its own inbox)
Publish(subject, data) ==
  [c \in Subjects |-> IF c = subject THEN Append(inbox[c], data) ELSE inbox[c]]

\* The newest socket constructed for a subject, NoSock if none.
LastSock(c) ==
  LET mine == {s \in socks : s.reply = c}
  IN IF mine = {} THEN NoSock
     ELSE CHOOSE s \in mine : \A t \in mine : t.seq <= s.seq

\* ------------------------------------------------------------------ Socket.Close
\* once.Do's fast path: done is already set, Close returns nil at once.
CloseFast(s) ==
  /\ onceDone[s]
  /\ closeRets' = [closeRets EXCEPT ![s] = @ \cup {"nil"}]
  /\ UNCHANGED <<closed, onceDone, nclose, cpanic>>

\* once.Do's slow path, under once.m: run close(n.close) if done is 0 and set
\* done; closing a closed channel panics.
CloseSlow(s) ==
  IF OnceRuns(onceDone[s])
  THEN /\ nclose' = [nclose EXCEPT ![s] = @ + 1]
       /\ onceDone' = [onceDone EXCEPT ![s] = TRUE]
       /\ IF closed[s]
          THEN /\ cpanic' = [cpanic EXCEPT ![s] = TRUE]
               /\ UNCHANGED <<closed, closeRets>>
          ELSE /\ closed' = [closed EXCEPT ![s] = TRUE]
               /\ closeRets' = [closeRets EXCEPT ![s] = @ \cup {"nil"}]
               /\ UNCHANGED cpanic
  ELSE /\ closeRets' = [closeRets EXCEPT ![s] = @ \cup {"nil"}]
       /\ UNCHANGED <<closed, onceDone, nclose, cpanic>>

\* ------------------------------------------------------------------ Accept
\* s, err := n.conn.SubscribeSync(n.addr); go func() { <-n.exit; ... }()
AcceptSubscribe ==
  /\ apc = "start"
  /\ IF connClosed
     THEN /\ apc' = "returned" /\ aret' = "err"
          /\ UNCHANGED <<sub, epc>>
     ELSE /\ sub' = "active" /\ epc' = "wait" /\ apc' = "poll"
          /\ UNCHANGED aret
  /\ UNCHANGED <<subq, connClosed, inbox, lisVars, am, asock, ataken,
                 ntimeouts, aclosedAtRecv, dropped, lcVars, socks, chanVars,
                 onceVars, hdlVars, wpc, xpc, cliVars>>

\* m, err := s.NextMsg(time.Minute) with err == nil
AcceptPollMsg ==
  /\ apc = "poll" /\ sub = "active" /\ ~connClosed
  /\ subq # << >>
  /\ am' = Head(subq)
  /\ subq' = Tail(subq)
  /\ ataken' = [ataken EXCEPT ![Head(subq).reply] = Head(subq).seq]
  /\ aclosedAtRecv' = (LET l == LastSock(Head(subq).reply)
                       IN l # NoSock /\ closed[l])
  /\ ntimeouts' = 0
  /\ apc' = "lookup"
  /\ UNCHANGED <<sub, connClosed, inbox, lisVars, asock, aret, dropped, epc,
                 lcVars, socks, chanVars, onceVars, hdlVars, wpc, xpc, cliVars>>

\* err == nats.ErrTimeout: continue
AcceptPollTimeout ==
  /\ apc = "poll" /\ sub = "active" /\ ~connClosed
  /\ subq = << >>
  /\ ntimeouts < MaxTimeouts
  /\ ntimeouts' = ntimeouts + 1
  /\ UNCHANGED <<busVars, lisVars, apc, am, asock, aret, ataken, aclosedAtRecv,
                 dropped, epc, lcVars, socks, chanVars, onceVars, hdlVars, wpc,
                 xpc, cliVars>>

\* Mutant of AcceptPollErr: every error of NextMsg is taken for a timeout.
AcceptPollErrContinue ==
  /\ apc = "poll"
  /\ sub = "unsub" \/ connClosed
  /\ UNCHANGED vars

\* Mutant of AcceptPollErr: Accept leaves the loop and returns lerr, the
\* result of Unsubscribe, in place of the error of NextMsg.
AcceptPollErrLerr ==
  /\ apc = "poll"
  /\ sub = "unsub" \/ connClosed
  /\ apc' = "returned" /\ aret' = "nil"
  /\ UNCHANGED <<busVars, lisVars, am, asock, ataken, ntimeouts, aclosedAtRecv,
                 dropped, epc, lcVars, socks, chanVars, onceVars, hdlVars, wpc,
                 xpc, cliVars>>

\* any other error of NextMsg (subscription released, connection closed):
\* return err
AcceptPollErr ==
  /\ apc = "poll"
  /\ sub = "unsub" \/ connClosed
  /\ apc' = "returned" /\ aret' = "err"
  /\ UNCHANGED <<busVars, lisVars, am, asock, ataken, ntimeouts, aclosedAtRecv,
                 dropped, epc, lcVars, socks, chanVars, onceVars, hdlVars, wpc,
                 xpc, cliVars>>

\* n.RLock()
AcceptLookupLock ==
  /\ apc = "lookup" /\ CanRLock
  /\ apc' = "lookupCS"
  /\ UNCHANGED <<busVars, lisVars, am, asock, aret, ataken, ntimeouts,
                 aclosedAtRecv, dropped, epc, lcVars, socks, chanVars, onceVars,
                 hdlVars, wpc, xpc, cliVars>>

\* sock, ok := n.so[m.Reply]; n.RUnlock(); if !ok { ... }
AcceptLookup ==
  /\ apc = "lookupCS"
  /\ LET sock == Lookup(so, am.reply)
     IN IF sock # NoSock
        THEN asock' = sock /\ apc' = "check"
        ELSE asock' = NoSock /\ apc' = "create"
  /\ UNCHANGED <<busVars, lisVars, am, aret, ataken, ntimeouts, aclosedAtRecv,
                 dropped, epc, lcVars, socks, chanVars, onceVars, hdlVars, wpc,
                 xpc, cliVars>>

\* sock = &ntportSocket{m: m, r: make(chan *nats.Msg, 1), close: make(chan bool)}
\* n.Lock()
AcceptCreate ==
  /\ apc = "create" /\ CanLock
  /\ asock' = am
  /\ socks' = socks \cup {am}
  /\ apc' = "registerCS"
  /\ UNCHANGED <<busVars, lisVars, am, aret, ataken, ntimeouts, aclosedAtRecv,
                 dropped, epc, lcVars, chanVars, onceVars, hdlVars, wpc, xpc,
                 cliVars>>

\* n.so[m.Reply] = sock; n.Unlock()
AcceptRegister ==
  /\ apc = "registerCS"
  /\ so' = [so EXCEPT ![am.reply] = asock]
  /\ apc' = "spawn"
  /\ UNCHANGED <<busVars, exitCh, am, asock, aret, ataken, ntimeouts,
                 aclosedAtRecv, dropped, epc, lcVars, socks, chanVars, onceVars,
                 hdlVars, wpc, xpc, cliVars>>

\* Mutant of AcceptSpawn: the handler is started without a cleanup watcher.
AcceptSpawnNoWatcher ==
  /\ apc = "spawn"
  /\ hpc' = [hpc EXCEPT ![asock] = "run"]
  /\ xpc' = [xpc EXCEPT ![asock] = "idle"]
  /\ apc' = "check"
  /\ UNCHANGED <<busVars, lisVars, am, asock, aret, ataken, ntimeouts,
                 aclosedAtRecv, dropped, epc, lcVars, socks, chanVars, onceVars,
                 held, recvd, rret, panicking, nsent, hcalls, replies, wpc,
                 cliVars>>

\* go func() { defer ...; fn(sock) }(); go func() { <-sock.close; ... }()
AcceptSpawn ==
  /\ apc = "spawn"
  /\ hpc' = [hpc EXCEPT ![asock] = "run"]
  /\ wpc' = [wpc EXCEPT ![asock] = "wait"]
  /\ xpc' = [xpc EXCEPT ![asock] = "idle"]
  /\ apc' = "check"
  /\ UNCHANGED <<busVars, lisVars, am, asock, aret, ataken, ntimeouts,
                 aclosedAtRecv, dropped, epc, lcVars, socks, chanVars, onceVars,
                 held, recvd, rret, panicking, nsent, hcalls, replies, cliVars>>

\* select { case <-sock.close: continue; default: }
AcceptCheck ==
  /\ apc = "check"
  /\ IF IsClosed(asock)
     THEN /\ dropped' = dropped \cup {am}
          /\ am' = NoFrame /\ asock' = NoSock
          /\ apc' = "poll"
     ELSE /\ apc' = "enq"
          /\ UNCHANGED <<dropped, am, asock>>
  /\ UNCHANGED <<busVars, lisVars, aret, ataken, ntimeouts, aclosedAtRecv, epc,
                 lcVars, socks, chanVars, onceVars, hdlVars, wpc, xpc, cliVars>>

\* sock.Lock()
AcceptEnqLock ==
  /\ apc = "enq" /\ CanSockLock(asock)
  /\ apc' = "enqCS"
  /\ UNCHANGED <<busVars, lisVars, am, asock, aret, ataken, ntimeouts,
                 aclosedAtRecv, dropped, epc, lcVars, socks, chanVars, onceVars,
                 hdlVars, wpc, xpc, cliVars>>

\* Mutant of AcceptEnqueue: the frame is sent into the hand-off slot with a
\* blocking send, so a full slot holds the accept loop until a Recv empties it.
AcceptEnqueueBlocking ==
  /\ apc = "enqCS"
  /\ Len(r[asock]) < SlotCap
  /\ r' = [r EXCEPT ![asock] = Append(@, am)]
  /\ am' = NoFrame /\ asock' = NoSock
  /\ apc' = "poll"
  /\ UNCHANGED <<busVars, lisVars, aret, ataken, ntimeouts, aclosedAtRecv,
                 dropped, epc, lcVars, socks, bl, rclosed, onceVars, hdlVars, wpc,
                 xpc, cliVars>>

\* sock.bl = append(sock.bl, m); select { case sock.r <- sock.bl[0]: ... }
\* sock.Unlock()
AcceptEnqueue ==
  /\ apc = "enqCS"
  /\ LET p == Promote(r[asock], Append(bl[asock], am))
     IN /\ r' = [r EXCEPT ![asock] = p[1]]
        /\ bl' = [bl EXCEPT ![asock] = p[2]]
  /\ am' = NoFrame /\ asock' = NoSock
  /\ apc' = "poll"
  /\ UNCHANGED <<busVars, lisVars, aret, ataken, ntimeouts, aclosedAtRecv,
                 dropped, epc, lcVars, socks, rclosed, onceVars, hdlVars, wpc, xpc,
                 cliVars>>

\* go func() { <-n.exit; lerr = s.Unsubscribe() }()
ExitWake ==
  /\ epc = "wait" /\ exitCh > 0
  /\ exitCh' = exitCh - 1
  /\ sub' = IF connClosed THEN sub ELSE "unsub"
  /\ epc' = "done"
  /\ UNCHANGED <<subq, connClosed, inbox, so, accVars, lcVars, socks, chanVars,
                 onceVars, hdlVars, wpc, xpc, cliVars>>

\* Mutant of WatcherLock: the watcher does not wait for the close signal.
WatcherLockEarly(s) ==
  /\ wpc[s] = "wait" /\ CanLock
  /\ wpc' = [wpc EXCEPT ![s] = "deleteCS"]
  /\ UNCHANGED <<busVars, lisVars, accVars, epc, lcVars, socks, chanVars,
                 onceVars, hdlVars, xpc, cliVars>>

\* go func() { <-sock.close; n.Lock(); ...
WatcherLock(s) ==
  /\ wpc[s] = "wait" /\ closed[s] /\ CanLock
  /\ wpc' = [wpc EXCEPT ![s] = "deleteCS"]
  /\ UNCHANGED <<busVars, lisVars, accVars, epc, lcVars, socks, chanVars,
                 onceVars, hdlVars, xpc, cliVars>>

\* ... delete(n.so, sock.m.Reply); n.Unlock() }()
WatcherDelete(s) ==
  /\ wpc[s] = "deleteCS"
  /\ so' = Deleted(so, s.reply)
  /\ wpc' = [wpc EXCEPT ![s] = "done"]
  /\ UNCHANGED <<busVars, exitCh, accVars, epc, lcVars, socks, chanVars,
                 onceVars, hdlVars, xpc, cliVars>>

\* ------------------------------------------------------------------ Listener.Close
LCloseCall ==
  /\ lpc = "idle" /\ lcalls < MaxLClose
  /\ lpc' = "send" /\ lcalls' = lcalls + 1
  /\ UNCHANGED <<busVars, lisVars, accVars, epc, socks, chanVars, onceVars,
                 hdlVars, wpc, xpc, cliVars>>

\* n.exit <- true
LCloseSend ==
  /\ lpc = "send" /\ exitCh < ExitCap
  /\ exitCh' = exitCh + 1
  /\ lpc' = "conn"
  /\ UNCHANGED <<busVars, so, accVars, epc, lcalls, socks, chanVars, onceVars,
                 hdlVars, wpc, xpc, cliVars>>

\* Mutant of LCloseConn: closing the listener fires every socket's close
\* signal.
LCloseConnCascade ==
  /\ lpc = "conn"
  /\ connClosed' = TRUE
  /\ lpc' = "idle"
  /\ closed' = [s \in Sockets |-> closed[s] \/ s \in socks]
  /\ UNCHANGED <<subq, sub, inbox, lisVars, accVars, epc, lcalls, socks,
                 chanVars, onceDone, nclose, cpanic, closeRets, hdlVars, wpc,
                 xpc, cliVars>>

\* n.conn.Close(); return nil
LCloseConn ==
  /\ lpc = "conn"
  /\ connClosed' = TRUE
  /\ lpc' = "idle"
  /\ UNCHANGED <<subq, sub, inbox, lisVars, accVars, epc, lcalls, socks,
                 chanVars, onceVars, hdlVars, wpc, xpc, cliVars>>

\* ------------------------------------------------------------------ handler
\* fn(sock) calls sock.Recv(m) with m != nil
HRecvCall(s) ==
  /\ hpc[s] = "run"
  /\ hpc' = [hpc EXCEPT ![s] = "recvWait"]
  /\ UNCHANGED <<busVars, lisVars, accVars, epc, lcVars, socks, chanVars,
                 onceVars, held, recvd, rret, panicking, nsent, hcalls, replies,
                 wpc, xpc, cliVars>>

\* r, ok := <-n.r; if !ok { return io.EOF }
\* (a closed channel still yields what it buffers; nothing in the package
\* closes n.r, so rclosed stays FALSE)
HRecvTake(s) ==
  /\ hpc[s] = "recvWait"
  /\ r[s] # << >> \/ rclosed[s]
  /\ IF r[s] # << >>
     THEN /\ held' = [held EXCEPT ![s] = Head(r[s])]
          /\ r' = [r EXCEPT ![s] = Tail(r[s])]
          /\ hpc' = [hpc EXCEPT ![s] = "recvLock"]
          /\ UNCHANGED rret
     ELSE /\ rret' = [rret EXCEPT ![s] = "EOF"]
          /\ hpc' = [hpc EXCEPT ![s] = "run"]
          /\ UNCHANGED <<held, r>>
  /\ UNCHANGED <<busVars, lisVars, accVars, epc, lcVars, socks, bl, rclosed,
                 onceVars, recvd, panicking, nsent, hcalls, replies, wpc, xpc,
                 cliVars>>

\* n.Lock()
HRecvLock(s) ==
  /\ hpc[s] = "recvLock" /\ CanSockLock(s)
  /\ hpc' = [hpc EXCEPT ![s] = "recvCS"]
  /\ UNCHANGED <<busVars, lisVars, accVars, epc, lcVars, socks, chanVars,
                 onceVars, held, recvd, rret, panicking, nsent, hcalls, replies,
                 wpc, xpc, cliVars>>

\* Mutant of HRecvPromote: Recv returns the frame it took without promoting
\* the backlog head.
HRecvNoPromote(s) ==
  /\ hpc[s] = "recvCS"
  /\ recvd' = [recvd EXCEPT ![s] = Append(@, held[s])]
  /\ rret' = [rret EXCEPT ![s] = "nil"]
  /\ held' = [held EXCEPT ![s] = NoFrame]
  /\ hpc' = [hpc EXCEPT ![s] = "run"]
  /\ UNCHANGED <<busVars, lisVars, accVars, epc, lcVars, socks, chanVars,
                 onceVars, panicking, nsent, hcalls, replies, wpc, xpc,
                 cliVars>>

\* if len(n.bl) > 0 { select {...} }; n.Unlock(); json.Unmarshal(r.Data, &m);
\* return nil
HRecvPromote(s) ==
  /\ hpc[s] = "recvCS"
  /\ LET p == Promote(r[s], bl[s])
     IN /\ r' = [r EXCEPT ![s] = p[1]]
        /\ bl' = [bl EXCEPT ![s] = p[2]]
  /\ recvd' = [recvd EXCEPT ![s] = Append(@, held[s])]
  /\ rret' = [rret EXCEPT ![s] = "nil"]
  /\ held' = [held EXCEPT ![s] = NoFrame]
  /\ hpc' = [hpc EXCEPT ![s] = "run"]
  /\ UNCHANGED <<busVars, lisVars, accVars, epc, lcVars, socks, rclosed,
                 onceVars, panicking, nsent, hcalls, replies, wpc, xpc,
                 cliVars>>

\* sock.Send(reply): b, _ := json.Marshal(m); return n.conn.Publish(n.m.Reply, b)
\* (an error, nothing published, once the connection is closed)
HSend(s, reply) ==
  /\ hpc[s] = "run" /\ nsent[s] < MaxReply
  /\ nsent' = [nsent EXCEPT ![s] = @ + 1]
  /\ IF connClosed
     THEN UNCHANGED <<inbox, replies>>
     ELSE /\ inbox' = Publish(ReplySubject(s), Marshal(reply))
          /\ replies' = [replies EXCEPT ![s.reply] = Append(@, reply)]
  /\ UNCHANGED <<subq, sub, connClosed, lisVars, accVars, epc, lcVars, socks,
                 chanVars, onceVars, hpc, held, recvd, rret, panicking, hcalls, wpc,
                 xpc, cliVars>>

\* sock.Close() called by the handler
HClose(s) ==
  /\ hpc[s] = "run" /\ hcalls[s] < MaxClose
  /\ hcalls' = [hcalls EXCEPT ![s] = @ + 1]
  /\ IF onceDone[s]
     THEN CloseFast(s) /\ UNCHANGED hpc
     ELSE hpc' = [hpc EXCEPT ![s] = "closeSlow"] /\ UNCHANGED onceVars
  /\ UNCHANGED <<busVars, lisVars, accVars, epc, lcVars, socks, chanVars,
                 held, recvd, rret, panicking, nsent, replies, wpc, xpc, cliVars>>

HCloseSlow(s) ==
  /\ hpc[s] = "closeSlow"
  /\ CloseSlow(s)
  /\ hpc' = [hpc EXCEPT ![s] = "run"]
  /\ UNCHANGED <<busVars, lisVars, accVars, epc, lcVars, socks, chanVars,
                 held, recvd, rret, panicking, nsent, hcalls, replies, wpc, xpc,
                 cliVars>>

\* fn(sock) panics
HPanic(s) ==
  /\ hpc[s] = "run"
  /\ panicking' = [panicking EXCEPT ![s] = TRUE]
  /\ hpc' = [hpc EXCEPT ![s] = "defer"]
  /\ UNCHANGED <<busVars, lisVars, accVars, epc, lcVars, socks, chanVars,
                 onceVars, held, recvd, rret, nsent, hcalls, replies, wpc, xpc,
                 cliVars>>

\* fn(sock) returns
HReturn(s) ==
  /\ hpc[s] = "run"
  /\ hpc' = [hpc EXCEPT ![s] = "defer"]
  /\ UNCHANGED <<busVars, lisVars, accVars, epc, lcVars, socks, chanVars,
                 onceVars, held, recvd, rret, panicking, nsent, hcalls, replies,
                 wpc, xpc, cliVars>>

\* defer func() { if r := recover(); r != nil { sock.Close() } }()
HDefer(s) ==
  /\ hpc[s] = "defer"
  /\ IF Recovered(panicking[s])
     THEN IF onceDone[s]
          THEN CloseFast(s) /\ hpc' = [hpc EXCEPT ![s] = "done"]
          ELSE hpc' = [hpc EXCEPT ![s] = "deferSlow"] /\ UNCHANGED onceVars
     ELSE hpc' = [hpc EXCEPT ![s] = "done"] /\ UNCHANGED onceVars
  /\ UNCHANGED <<busVars, lisVars, accVars, epc, lcVars, socks, chanVars,
                 held, recvd, rret, panicking, nsent, hcalls, replies, wpc, xpc,
                 cliVars>>

HDeferSlow(s) ==
  /\ hpc[s] = "deferSlow"
  /\ CloseSlow(s)
  /\ hpc' = [hpc EXCEPT ![s] = "done"]
  /\ UNCHANGED <<busVars, lisVars, accVars, epc, lcVars, socks, chanVars,
                 held, recvd, rret, panicking, nsent, hcalls, replies, wpc, xpc,
                 cliVars>>

\* sock.Close() called from another goroutine that was given the socket
XClose(s) ==
  /\ xpc[s] = "idle"
  /\ IF onceDone[s]
     THEN CloseFast(s) /\ xpc' = [xpc EXCEPT ![s] = "done"]
     ELSE xpc' = [xpc EXCEPT ![s] = "slow"] /\ UNCHANGED onceVars
  /\ UNCHANGED <<busVars, lisVars, accVars, epc, lcVars, socks, chanVars,
                 hdlVars, wpc, cliVars>>

XCloseSlow(s) ==
  /\ xpc[s] = "slow"
  /\ CloseSlow(s)
  /\ xpc' = [xpc EXCEPT ![s] = "done"]
  /\ UNCHANGED <<busVars, lisVars, accVars, epc, lcVars, socks, chanVars,
                 hdlVars, wpc, cliVars>>

\* ------------------------------------------------------------------ client
\* Frames a client publishes: the second client is there to share the listener
\* with the first and publishes one frame fewer.
Quota(c) == IF c = "A" THEN MaxSend ELSE MaxSend - 1

\* Client.Send: n.conn.PublishRequest(n.addr, n.id, b); the bus hands the frame
\* to the listener's subscription if there is one and drops it otherwise
\* (csent counts the frames handed over)
CSend(c) ==
  /\ csent[c] < Quota(c)
  /\ IF sub = "active" /\ ~connClosed
     THEN /\ subq' = Append(subq, Frame(c, csent[c] + 1))
          /\ csent' = [csent EXCEPT ![c] = @ + 1]
     ELSE UNCHANGED <<subq, csent>>
  /\ UNCHANGED <<sub, connClosed, inbox, lisVars, accVars, epc, lcVars, socks,
                 chanVars, onceVars, hdlVars, wpc, xpc, crecv>>

\* Client.Recv: rsp, err := n.sub.NextMsg(10s); json.Unmarshal(rsp.Data, &mr);
\* *m = *mr
CRecv(c) ==
  /\ inbox[c] # << >>
  /\ crecv' = [crecv EXCEPT ![c] = Append(@, Unmarshal(Head(inbox[c])))]
  /\ inbox' = [inbox EXCEPT ![c] = Tail(@)]
  /\ UNCHANGED <<subq, sub, connClosed, lisVars, accVars, epc, lcVars, socks,
                 chanVars, onceVars, hdlVars, wpc, xpc, csent>>

\* Client.Recv: NextMsg times out, the error is returned
CRecvTimeout(c) ==
  /\ inbox[c] = << >>
  /\ UNCHANGED vars

\* ------------------------------------------------------------------ system
AcceptLoop ==
  \/ AcceptSubscribe \/ AcceptPollMsg \/ AcceptPollTimeout
  \/ AcceptLookupLock \/ AcceptLookup \/ AcceptCreate \/ AcceptRegister
  \/ AcceptSpawn \/ AcceptCheck \/ AcceptEnqLock \/ AcceptEnqueue

\* the steps of a started Recv
RecvRun(s) == HRecvTake(s) \/ HRecvLock(s) \/ HRecvPromote(s)

Watcher(s) == WatcherLock(s) \/ WatcherDelete(s)

\* The whole system: every goroutine of the listener, two clients, handlers
\* that may do anything with their socket.
Next ==
  \/ AcceptLoop \/ AcceptPollErr
  \/ ExitWake
  \/ LCloseCall \/ LCloseSend \/ LCloseConn
  \/ \E s \in Sockets : HRecvCall(s) \/ RecvRun(s)
  \/ \E s \in Sockets : HClose(s) \/ HCloseSlow(s)
  \/ \E s \in Sockets : HPanic(s) \/ HReturn(s) \/ HDefer(s) \/ HDeferSlow(s)
  \/ \E s \in Sockets : \E reply \in ReplyMsgs : HSend(s, reply)
  \/ \E s \in Sockets : XClose(s) \/ XCloseSlow(s)
  \/ \E s \in Sockets : Watcher(s)
  \/ \E c \in Subjects : CSend(c) \/ CRecv(c) \/ CRecvTimeout(c)

Spec == Init /\ [][Next]_vars

\* One session: client A, handlers that receive and close.
NextSession ==
  \/ AcceptLoop
  \/ \E s \in Sockets : HRecvCall(s) \/ RecvRun(s)
  \/ \E s \in Sockets : HClose(s) \/ HCloseSlow(s)
  \/ \E s \in Sockets : Watcher(s)
  \/ CSend("A")

SpecSession == Init /\ [][NextSession]_vars

\* One session whose socket is closed from several places: the handler, the
\* recovery of a handler panic, another goroutine.
NextClose ==
  \/ AcceptLoop
  \/ \E s \in Sockets : HRecvCall(s) \/ RecvRun(s)
  \/ \E s \in Sockets : HClose(s) \/ HCloseSlow(s)
  \/ \E s \in Sockets : HPanic(s) \/ HReturn(s) \/ HDefer(s) \/ HDeferSlow(s)
  \/ \E s \in Sockets : XClose(s) \/ XCloseSlow(s)
  \/ \E s \in Sockets : Watcher(s)
  \/ CSend("A")

SpecClose == Init /\ [][NextClose]_vars

\* Two sessions: clients A and B, handlers that receive and close.
NextPair ==
  \/ AcceptLoop
  \/ \E s \in Sockets : HRecvCall(s) \/ RecvRun(s)
  \/ \E s \in Sockets : HClose(s) \/ HCloseSlow(s)
  \/ \E s \in Sockets : Watcher(s)
  \/ \E c \in Subjects : CSend(c)

SpecPair == Init /\ [][NextPair]_vars

\* Two sessions served by request and reply: a handler receives one request,
\* replies to it, then closes; the clients read the replies.
NextRound ==
  \/ AcceptLoop
  \/ \E s \in Sockets : (rret[s] = "none" /\ HRecvCall(s)) \/ RecvRun(s)
  \/ \E s \in Sockets : \E reply \in ReplyMsgs :
       rret[s] = "nil" /\ HSend(s, reply)
  \/ \E s \in Sockets : (nsent[s] > 0 /\ HClose(s)) \/ HCloseSlow(s)
  \/ \E s \in Sockets : Watcher(s)
  \/ \E c \in Subjects : CSend(c) \/ CRecv(c) \/ CRecvTimeout(c)

SpecRound == Init /\ [][NextRound]_vars

\* Two sessions whose handlers receive and then return or panic.
NextPanic ==
  \/ AcceptLoop
  \/ \E s \in Sockets : HRecvCall(s) \/ RecvRun(s)
  \/ \E s \in Sockets : HPanic(s) \/ HReturn(s) \/ HDefer(s) \/ HDeferSlow(s)
  \/ \E s \in Sockets : Watcher(s)
  \/ \E c \in Subjects : CSend(c)

SpecPanic == Init /\ [][NextPanic]_vars

\* One session on a listener that is closed while it serves.
NextListener ==
  \/ AcceptLoop \/ AcceptPollErr
  \/ ExitWake
  \/ LCloseCall \/ LCloseSend \/ LCloseConn
  \/ \E s \in Sockets : HRecvCall(s) \/ RecvRun(s)
  \/ \E s \in Sockets : HClose(s) \/ HCloseSlow(s)
  \/ \E s \in Sockets : Watcher(s)
  \/ CSend("A")

SpecListener == Init /\ [][NextListener]_vars

\* ------------------------------------------------------------------ claims
\* The frames a socket has taken in, oldest first: those Recv returned, the one
\* a Recv holds between the hand-off slot and its return, the slot, the backlog.
Pending(s) ==
  recvd[s] \o (IF held[s] = NoFrame THEN << >> ELSE <<held[s]>>) \o r[s] \o bl[s]

\* The accept loop holds a frame of subject c that it has not yet enqueued or
\* dropped.
InHand(c) == am # NoFrame /\ am.reply = c

\* C1: the frames a socket has taken in are, in order, the consecutive frames
\* the accept loop received for its subject starting with the one that created
\* it (so what Recv returned is a prefix of them, in delivery order, nothing
\* twice), and while the socket is open none is missing: every frame received
\* for the subject since is in the socket or still in the accept loop's hand.
C1_Fifo ==
  \A s \in socks :
    /\ \A i \in 1..Len(Pending(s)) :
         Pending(s)[i] = Frame(s.reply, s.seq + i - 1)
    /\ ~closed[s] =>
         Len(Pending(s)) + (IF InHand(s.reply) THEN 1 ELSE 0)
           = ataken[s.reply] - s.seq + 1

C1_Witness ==
  \E s \in socks :
    /\ ~closed[s]
    /\ recvd[s] = <<Frame(s.reply, 1), Frame(s.reply, 2)>>
    /\ hpc[s] = "run"

\* C2, as claimed: a Recv parked on a closed socket whose slot and backlog are
\* empty eventually returns io.EOF.
C2_Orig ==
  \A s \in Sockets :
    (hpc[s] = "recvWait" /\ closed[s] /\ r[s] = << >> /\ bl[s] = << >>)
      ~> (hpc[s] # "recvWait" /\ rret[s] = "EOF")

\* The accept loop has just received a frame of a subject whose newest socket
\* is closed, and goes on to construct a socket for it or to enqueue it.
C4_Revived ==
  /\ aclosedAtRecv
  /\ apc \in {"create", "registerCS", "spawn", "enq", "enqCS"}

\* C4, as claimed: a frame received for a subject whose socket was already
\* closed creates no socket and is not enqueued.
C4_Orig == ~C4_Revived

\* C4, amended: a frame whose subject's registry entry still names a closed
\* socket when the accept loop checks it is dropped: the loop goes back to
\* polling, no socket is constructed, no handler started, nothing enqueued,
\* no error returned.
C4_Drop ==
  [][ (apc = "check" /\ closed[asock] /\ apc' # "check") =>
        /\ apc' = "poll" /\ aret' = aret
        /\ socks' = socks /\ so' = so
        /\ r' = r /\ bl' = bl /\ hpc' = hpc /\ wpc' = wpc
        /\ dropped' = dropped \cup {am} ]_vars

C4_Witness ==
  /\ aclosedAtRecv /\ apc = "poll"
  /\ \E f \in dropped : f.seq = ataken[f.reply] /\ so[f.reply] # NoSock

\* C7: of two sockets constructed for the same subject the older one is closed
\* and its watcher has deleted its registry entry, so a subject never has two
\* sockets that are not closed, and the registry names the newest one or none.
C7_OneLive ==
  /\ \A s, u \in socks :
       (s.reply = u.reply /\ s.seq < u.seq) => (closed[s] /\ wpc[s] = "done")
  /\ \A c \in Subjects :
       Cardinality({s \in socks : s.reply = c /\ ~closed[s]}) <= 1
  /\ \A c \in Subjects : so[c] # NoSock => so[c] = LastSock(c)

C7_Witness ==
  \E s, u \in socks :
    /\ s.reply = u.reply /\ s.seq < u.seq
    /\ ~closed[u] /\ so[u.reply] = u /\ r[u] # << >>

\* The steps that run without anybody's choice: the accept loop, a started
\* Recv or Close, the cleanup watchers.  sync.RWMutex does not starve a writer.
FairSession ==
  /\ SpecSession
  /\ WF_vars(AcceptLoop)
  /\ \A s \in Sockets : WF_vars(RecvRun(s) \/ HCloseSlow(s))
  /\ \A s \in Sockets : SF_vars(WatcherLock(s)) /\ WF_vars(WatcherDelete(s))

\* C5: a closed socket's registry entry is eventually deleted; a frame whose
\* subject the lookup then finds no entry for makes the accept loop construct
\* a socket, and that socket is a new one: open, slot and backlog empty, no
\* socket constructed before is changed by it, and it gets a handler and a
\* watcher of its own.
C5_Reuse ==
  /\ \A s \in Sockets : closed[s] ~> (wpc[s] = "done" /\ so[s.reply] # s)
  /\ [][ /\ (apc = "lookupCS" /\ apc' # apc) =>
              (so[am.reply] = NoSock <=> apc' = "create")
         /\ (apc = "create" /\ apc' # apc) =>
              /\ so[am.reply] = NoSock
              /\ asock' \notin socks /\ socks' = socks \cup {asock'}
              /\ ~closed[asock'] /\ ~onceDone[asock']
              /\ r[asock'] = << >> /\ bl[asock'] = << >>
              /\ hpc[asock'] = "none" /\ wpc[asock'] = "none"
              /\ chanVars' = chanVars /\ onceVars' = onceVars
              /\ hdlVars' = hdlVars
         /\ (apc = "spawn" /\ apc' # apc) =>
              /\ hpc'[asock] = "run" /\ wpc'[asock] = "wait"
              /\ \A u \in Sockets \ {asock} :
                   hpc'[u] = hpc[u] /\ wpc'[u] = wpc[u] ]_vars

C5_Witness ==
  \E s, u \in socks :
    /\ s.reply = u.reply /\ s # u
    /\ closed[s] /\ wpc[s] = "done"
    /\ so[u.reply] = u /\ hpc[u] = "run" /\ ~closed[u]

FairClose ==
  /\ SpecClose
  /\ WF_vars(AcceptLoop)
  /\ \A s \in Sockets :
       WF_vars(RecvRun(s) \/ HCloseSlow(s) \/ HDefer(s) \/ HDeferSlow(s))
  /\ \A s \in Sockets : WF_vars(XCloseSlow(s))
  /\ \A s \in Sockets : SF_vars(WatcherLock(s)) /\ WF_vars(WatcherDelete(s))

\* C3: whatever the number and interleaving of Close calls on a socket, the
\* close action runs at most once and never on a closed channel (no panic),
\* a call that has returned returned nil, and once one has returned the close
\* signal has fired exactly once.
C3_Once ==
  \A s \in Sockets :
    /\ nclose[s] <= 1
    /\ ~cpanic[s]
    /\ closeRets[s] \subseteq {"nil"}
    /\ closed[s] <=> nclose[s] = 1
    /\ closeRets[s] # {} => nclose[s] = 1

\* The handler closed, panicked and was closed again by the recovery, while
\* another goroutine is on the slow path of its own Close.
C3_Witness ==
  \E s \in socks :
    /\ nclose[s] = 1 /\ hcalls[s] = 1
    /\ panicking[s] /\ hpc[s] = "done"
    /\ xpc[s] = "slow"

\* C6: every frame a socket holds or has returned carries the reply subject of
\* the frame that created the socket, the registry names under a subject only
\* a socket of that subject, and the accept loop dispatches a frame only to a
\* socket of the frame's subject.
C6_Isolation ==
  /\ \A s \in socks : \A i \in 1..Len(Pending(s)) :
       Pending(s)[i].reply = s.reply
  /\ \A c \in Subjects : so[c] # NoSock => so[c].reply = c
  /\ (am # NoFrame /\ asock # NoSock) => asock.reply = am.reply

C6_Witness ==
  \E s, u \in socks :
    /\ s.reply = "A" /\ u.reply = "B"
    /\ recvd[s] # << >> /\ recvd[u] # << >>
    /\ ~closed[s] /\ ~closed[u]

\* The messages client c's pending replies decode to.
Decoded(c) == [i \in 1..Len(inbox[c]) |-> Unmarshal(inbox[c][i])]

\* C8: what a client's Recv has returned and will return is, in order and by
\* value, exactly what the sockets created by that client's frames replied:
\* a socket's Send reaches the client of its session and nobody else.
C8_RoundTrip ==
  \A c \in Subjects : crecv[c] \o Decoded(c) = replies[c]

C8_Witness ==
  /\ crecv["A"] # << >> /\ crecv["B"] # << >>
  /\ crecv["A"][1] # crecv["B"][1]
  /\ \A s \in socks : closed[s]

FairPanic ==
  /\ SpecPanic
  /\ WF_vars(AcceptLoop)
  /\ \A s \in Sockets : WF_vars(RecvRun(s) \/ HDefer(s) \/ HDeferSlow(s))
  /\ \A s \in Sockets : SF_vars(WatcherLock(s)) /\ WF_vars(WatcherDelete(s))

\* C9: a handler that panics ends with its socket closed and, in time, its
\* registry entry deleted, as after a Close; the panic and its recovery leave
\* the accept loop where it is and change no other socket's close signal, slot
\* or backlog.
C9_Panic ==
  /\ \A s \in Sockets :
       panicking[s] ~> (closed[s] /\ wpc[s] = "done" /\ so[s.reply] # s)
  /\ [][ \A s \in Sockets :
           (hpc[s] \in {"run", "defer", "deferSlow"} /\ hpc'[s] # hpc[s]
              /\ panicking'[s]) =>
             /\ accVars' = accVars
             /\ \A u \in Sockets \ {s} :
                  /\ closed'[u] = closed[u]
                  /\ r'[u] = r[u] /\ bl'[u] = bl[u] ]_vars

C9_Witness ==
  \E s, u \in socks :
    /\ s.reply # u.reply
    /\ panicking[s] /\ closed[s] /\ wpc[s] = "done" /\ hpc[s] = "done"
    /\ so[s.reply] = NoSock
    /\ ~closed[u] /\ r[u] # << >> /\ so[u.reply] = u
    /\ aret = "running"

\* C10: no step of Listener.Close, nor the release of the subscription it
\* triggers, fires a socket's close signal, touches a slot or backlog, or
\* changes the registry.
C10_NoCascade ==
  [][ (lpc' # lpc \/ epc' # epc \/ connClosed' # connClosed) =>
        /\ closed' = closed /\ onceDone' = onceDone
        /\ r' = r /\ bl' = bl
        /\ so' = so ]_vars

C10_Witness ==
  /\ connClosed /\ lpc = "idle"
  /\ \E s \in socks : ~closed[s] /\ so[s.reply] = s /\ r[s] # << >>

\* C11: a socket's handler and cleanup watcher are started together, once, by
\* the step that follows its registration: a socket is without them only while
\* the accept loop is between constructing and starting it, a started handler
\* is never started again, a frame whose subject the lookup finds registered
\* goes to the closed-check without constructing or starting anything, and no
\* other step starts a handler or a watcher.
C11_OneHandler ==
  /\ [](\A s \in Sockets :
          /\ (hpc[s] = "none") <=> (wpc[s] = "none")
          /\ (s \in socks /\ hpc[s] = "none") =>
               (apc \in {"registerCS", "spawn"} /\ asock = s)
          /\ s \notin socks => hpc[s] = "none")
  /\ [][ /\ (apc = "spawn" /\ apc' # apc) =>
              /\ hpc[asock] = "none" /\ wpc[asock] = "none"
              /\ hpc'[asock] = "run" /\ wpc'[asock] = "wait"
         /\ \A s \in Sockets :
              (hpc'[s] # hpc[s] /\ (hpc[s] = "none" \/ hpc'[s] = "none")) =>
                (apc = "spawn" /\ asock = s /\ hpc[s] = "none")
         /\ \A s \in Sockets :
              (wpc'[s] # wpc[s] /\ (wpc[s] = "none" \/ wpc'[s] = "none")) =>
                (apc = "spawn" /\ asock = s /\ wpc[s] = "none")
         /\ (apc = "lookupCS" /\ so[am.reply] # NoSock /\ apc' # apc) =>
              (apc' = "check" /\ asock' = so[am.reply] /\ socks' = socks
               /\ hpc' = hpc /\ wpc' = wpc) ]_vars

\* The second frame of a subject was handed to the socket the first one
\* created, whose handler has received both.
C11_Witness ==
  /\ Cardinality(socks) = 1
  /\ \E s \in socks :
       /\ Len(recvd[s]) = 2 /\ so[s.reply] = s
       /\ hpc[s] = "run" /\ wpc[s] = "wait"
  /\ apc = "poll"

\* The accept loop and whoever holds a lock are scheduled; a handler is not:
\* it may stay parked in Recv, keep running, or never return.
FairPair ==
  /\ SpecPair
  /\ WF_vars(AcceptLoop)
  /\ \A s \in Sockets : WF_vars(HRecvPromote(s)) /\ WF_vars(WatcherDelete(s))

\* C12: the accept loop is never held by a handler.  Where it cannot step it
\* waits for a lock whose holder is inside its critical section and can leave
\* it at once; whatever the handlers do or fail to do, a frame in hand is
\* dispatched and every frame pending on the subscription is taken.
C12_NoWait ==
  /\ [](apc \in {"lookupCS", "registerCS", "spawn", "check", "enqCS"} =>
          ENABLED AcceptLoop)
  /\ []((apc \in {"lookup", "create"} /\ ~ENABLED AcceptLoop) =>
          \E s \in socks : wpc[s] = "deleteCS" /\ ENABLED WatcherDelete(s))
  /\ []((apc = "enq" /\ ~ENABLED AcceptLoop) =>
          (hpc[asock] = "recvCS" /\ ENABLED HRecvPromote(asock)))
  /\ (subq # << >> \/ am # NoFrame) ~> (subq = << >> /\ am = NoFrame)

\* Both sessions' hand-off slots are full, one with a backlog behind it, no
\* handler of the first session has received anything, and the accept loop has
\* taken every frame.
C12_Witness ==
  /\ apc = "poll" /\ subq = << >>
  /\ \E s, u \in socks :
       /\ s.reply = "A" /\ u.reply = "B"
       /\ r[s] # << >> /\ bl[s] # << >> /\ recvd[s] = << >>
       /\ r[u] # << >> /\ hpc[u] = "run"
  /\ csent["A"] = Quota("A") /\ csent["B"] = Quota("B")

\* A consumer that keeps calling Recv: beyond the scheduling of FairSession,
\* a handler that can call Recv does.
FairRecv ==
  /\ FairSession
  /\ \A s \in Sockets : WF_vars(HRecvCall(s))

\* Frame f is in queue q.
Has(q, f) == \E i \in 1..Len(q) : q[i] = f

\* C13: outside a Recv's steps between taking a frame from the hand-off slot
\* and promoting, a socket with a backlog has a full slot, so no Recv is parked
\* on an empty slot with frames behind it; and with a consumer that keeps
\* calling Recv every frame in a socket's slot or backlog is returned by Recv.
C13_Progress ==
  /\ [](\A s \in Sockets :
          (hpc[s] \notin {"recvLock", "recvCS"} /\ bl[s] # << >>) =>
            Len(r[s]) = SlotCap)
  /\ \A s \in Sockets : \A f \in AllFrames :
       Has(r[s] \o bl[s], f) ~> Has(recvd[s], f)

\* A Recv has returned the first frame and promoted the second out of the
\* backlog into the slot.
C13_Witness ==
  \E s \in socks :
    /\ Len(recvd[s]) = 1 /\ hpc[s] = "run" /\ rret[s] = "nil"
    /\ r[s] = <<Frame(s.reply, s.seq + 1)>> /\ bl[s] = << >>
    /\ apc = "poll" /\ subq = << >> /\ ~closed[s]

\* C14, as claimed: when the accept loop, holding the socket's lock, is at the
\* statement that appends its frame to the backlog and fills the hand-off
\* slot, that socket's close signal has not fired.
C14_Orig == apc = "enqCS" => ~closed[asock]

\* C15: a socket's watcher deletes only after the socket's close signal has
\* fired; the entry its one deletion removes is the socket's own, every other
\* entry stays; a watcher that has deleted does nothing more; and an entry
\* leaves the registry by no other step.
C15_DeleteOnce ==
  /\ [](\A s \in Sockets : wpc[s] \in {"deleteCS", "done"} => closed[s])
  /\ [][ /\ \A s \in Sockets :
              (wpc[s] = "deleteCS" /\ wpc'[s] # wpc[s]) =>
                /\ wpc'[s] = "done"
                /\ so[s.reply] = s /\ so'[s.reply] = NoSock
                /\ \A c \in Subjects \ {s.reply} : so'[c] = so[c]
         /\ \A s \in Sockets : wpc[s] = "done" => wpc'[s] = "done"
         /\ \A c \in Subjects :
              (so[c] # NoSock /\ so'[c] # so[c]) =>
                (wpc[so[c]] = "deleteCS" /\ wpc'[so[c]] = "done"
                 /\ so'[c] = NoSock) ]_vars

\* The first socket of a subject was closed and deleted, the subject's second
\* socket and the other subject's socket are registered.
C15_Witness ==
  \E s, u, v \in socks :
    /\ s.reply = u.reply /\ s.seq < u.seq /\ v.reply # s.reply
    /\ wpc[s] = "done" /\ closed[s]
    /\ so[u.reply] = u /\ so[v.reply] = v

\* The accept loop, a started Listener.Close, the goroutine waiting on exit and
\* whoever holds a lock are scheduled; handlers and clients are not.
FairListener ==
  /\ SpecListener
  /\ WF_vars(AcceptLoop \/ AcceptPollErr)
  /\ WF_vars(ExitWake)
  /\ WF_vars(LCloseSend \/ LCloseConn)
  /\ \A s \in Sockets : WF_vars(HRecvPromote(s)) /\ WF_vars(WatcherDelete(s))

\* C16: once Listener.Close has been called Accept eventually returns; it
\* returns only with an error and only after a Close released the
\* subscription or closed the connection; and after it has returned no socket
\* is constructed and no socket takes in another frame.
C16_Return ==
  /\ (lcalls > 0) ~> (apc = "returned")
  /\ [](apc = "returned" =>
          (aret = "err" /\ lcalls > 0 /\ (sub = "unsub" \/ connClosed)))
  /\ [][ apc = "returned" =>
           /\ apc' = "returned" /\ aret' = aret
           /\ socks' = socks
           /\ \A s \in Sockets : Pending(s)' = Pending(s) ]_vars

\* Accept has returned after one Close, leaving a frame on the subscription
\* and an open socket with a frame in its slot.
C16_Witness ==
  /\ apc = "returned" /\ lcalls = 1 /\ lpc = "idle"
  /\ subq # << >>
  /\ \E s \in socks : ~closed[s] /\ r[s] # << >>

\* C17: a poll that times out leaves the accept loop at the poll and changes
\* neither the registry, the sockets, the handlers and watchers, the frames
\* pending on the subscription nor Accept's result, however many timeouts came
\* before it; a poll that fails with another error makes Accept return that
\* error, and that step takes no frame and touches no socket.
C17_Poll ==
  [][ /\ (apc = "poll" /\ ntimeouts' = ntimeouts + 1) =>
           /\ apc' = "poll" /\ aret' = "running" /\ aret = "running"
           /\ am' = am /\ asock' = asock /\ subq' = subq
           /\ so' = so /\ socks' = socks
           /\ chanVars' = chanVars /\ onceVars' = onceVars
           /\ hdlVars' = hdlVars /\ wpc' = wpc
      /\ (apc = "poll" /\ apc' = "returned") =>
           /\ sub = "unsub" \/ connClosed
           /\ aret' = "err"
           /\ am = NoFrame /\ am' = NoFrame /\ subq' = subq
           /\ so' = so /\ socks' = socks
           /\ chanVars' = chanVars /\ onceVars' = onceVars
           /\ hdlVars' = hdlVars /\ wpc' = wpc ]_vars

\* Accept served a frame, then polled into as many timeouts in a row as are
\* told apart, then into the error that made it return.
C17_Witness ==
  /\ apc = "returned" /\ aret = "err"
  /\ ntimeouts = MaxTimeouts
  /\ \E s \in socks : so[s.reply] = s /\ r[s] # << >>

\* The handler of socket s has returned without a panic and never called Close.
Returned(s) == hpc[s] \in {"defer", "done"} /\ ~panicking[s] /\ hcalls[s] = 0

\* C18: the socket of a handler that returned normally without closing it stays
\* open and registered, its watcher stays parked, and a frame the accept loop
\* then handles for its subject is looked up to that socket, passes the
\* closed-check and is appended behind what the socket holds, while no socket
\* is constructed and no handler or watcher started.
C18_Lingers ==
  /\ [](\A s \in Sockets :
          Returned(s) => (~closed[s] /\ so[s.reply] = s /\ wpc[s] = "wait"))
  /\ [][ \A s \in Sockets :
           (Returned(s) /\ am.reply = s.reply /\ apc' # apc) =>
             /\ apc' \notin {"create", "registerCS", "spawn", "returned"}
             /\ socks' = socks /\ so' = so /\ wpc' = wpc
             /\ \A u \in Sockets : hpc[u] = "none" => hpc'[u] = "none"
             /\ apc = "lookupCS" => asock' = s
             /\ apc = "check" => apc' = "enq"
             /\ apc = "enqCS" =>
                  (asock = s /\ r'[s] \o bl'[s] = Append(r[s] \o bl[s], am)) ]_vars

\* A handler received its socket's first frame and returned; the subject's
\* second frame sits in the same socket's slot, the only socket of the subject.
C18_Witness ==
  \E s \in socks :
    /\ hpc[s] = "done" /\ ~panicking[s]
    /\ recvd[s] = <<Frame(s.reply, 1)>> /\ r[s] = <<Frame(s.reply, 2)>>
    /\ so[s.reply] = s /\ apc = "poll"
    /\ \A u \in socks : u.reply = s.reply => u = s

\* C19, as claimed: a Listener.Close that has been called returns, whether it
\* is the first call or a repeated one and whether Accept runs, never ran or
\* has returned.
C19_Orig == (lpc # "idle") ~> (lpc = "idle")

\* Every goroutine that holds or waits for a lock is scheduled; sync.RWMutex
\* does not starve a writer.  Handlers' calls and clients are not scheduled.
FairLocks ==
  /\ SpecSession
  /\ WF_vars(AcceptLoop)
  /\ \A s \in Sockets : WF_vars(HRecvLock(s) \/ HRecvPromote(s))
  /\ \A s \in Sockets : SF_vars(WatcherLock(s)) /\ WF_vars(WatcherDelete(s))

\* C20: nobody holds the registry lock together with a socket's lock; a lock's
\* holder can always take its next step, the one that releases the lock,
\* without waiting for a channel or for anybody else; and whoever waits for a
\* lock gets it.
C20_Locks ==
  /\ [](\A s \in Sockets :
          (RegReaders \cup RegWriters) \cap SockLockHolders(s) = {})
  /\ [](Cardinality(RegWriters) <= 1 /\ (RegWriters # {} => RegReaders = {}))
  /\ [](\A s \in Sockets : Cardinality(SockLockHolders(s)) <= 1)
  /\ [](/\ apc = "lookupCS" => ENABLED AcceptLookup
        /\ apc = "registerCS" => ENABLED AcceptRegister
        /\ apc = "enqCS" => ENABLED AcceptEnqueue
        /\ \A s \in Sockets :
             /\ wpc[s] = "deleteCS" => ENABLED WatcherDelete(s)
             /\ hpc[s] = "recvCS" => ENABLED HRecvPromote(s))
  /\ (apc = "lookup") ~> (apc = "lookupCS")
  /\ (apc = "create") ~> (apc = "registerCS")
  /\ (apc = "enq") ~> (apc = "enqCS")
  /\ \A s \in Sockets :
       /\ (hpc[s] = "recvLock") ~> (hpc[s] = "recvCS")
       /\ (wpc[s] = "wait" /\ closed[s]) ~> (wpc[s] = "deleteCS")

\* The accept loop waits for the lock of a socket whose Recv is promoting
\* under it, while the socket, closed in the meantime, has its watcher holding
\* the registry lock.
C20_Witness ==
  \E s \in socks :
    /\ apc = "enq" /\ asock = s /\ hpc[s] = "recvCS"
    /\ wpc[s] = "deleteCS"

====
